---- MODULE Spec2Model ----
(***************************************************************************)
(* Roth conversion calculator (src/src/lib.rs): the RMD divisor lookup,    *)
(* the progressive tax schedule, the yearly transition take_action, the    *)
(* successor generator and the depth-first search shortest_path_recursive  *)
(* that project drives.                                                    *)
(*                                                                         *)
(* Numbers.  Money is u32 and years are u16 in the source.  The model      *)
(* computes in mathematical integers and flags every unsigned subtraction  *)
(* whose result would be negative: with overflow checks on (the dev and    *)
(* test profiles) that operation panics, with them off (the release and    *)
(* bench profiles) it wraps modulo 2^32.  The model's balances stay far    *)
(* below 2^31, so no addition or multiplication overflows upwards.         *)
(*                                                                         *)
(* f64.  Rates are held in percent (8 stands for the f64 0.08), divisors   *)
(* in tenths (274 stands for 27.4) and tax bases in cents.  Each f64       *)
(* expression followed by `as u32` is modelled by the integer it yields:   *)
(* its floor, less one in the cases of F64QuotientShort where the f64      *)
(* quotient falls just short of the exact integer.  On the inputs the      *)
(* model uses, these integers are the ones IEEE-754 double arithmetic      *)
(* gives: get_tax for incomes 0..700000, the growth factor for balances    *)
(* 0..30000 and the rates 3 and 8 percent, the RMD quotient for balances   *)
(* 0..10000 and the divisors of ages 70..87.                               *)
(***************************************************************************)
EXTENDS Integers, Sequences, FiniteSets, TLC

VARIABLES args, status, stack, shortest_path, probe

vars == <<args, status, stack, shortest_path, probe>>

\* ------------------------------------------------------------------ bounds

\* Longest horizon end_year - start_year a scenario has.
MaxHorizon == 5

\* Oldest age the distribution-period probe tries (the table ends at 115).
MaxAge == 117

\* Incomes probed on each side of every tax bracket threshold.
TaxWindow == 3

\* --------------------------------------------------------------- constants

\* The rollover increment successors() hard-codes.
RolloverAmount == 1000

\* Largest u16, the type of State.year.
U16Max == 65535

\* ------------------------------------------------------------------- Action

Continue == [kind |-> "Continue", amount |-> 0]

RolloverThenContinue(x) == [kind |-> "RolloverThenContinue", amount |-> x]

\* Option<Action>::None, the previous_action of the initial state.
NoAction == [kind |-> "None", amount |-> 0]

\* ------------------------------------------------------------- RMD divisors

\* DISTRIBUTION_PERIODS in tenths; index 1 is age 70.
DISTRIBUTION_PERIODS ==
    << 274, 265, 256, 247, 238, 229, 220, 212, 203, 195, 187, 179,
       171, 163, 155, 148, 141, 134, 127, 120, 114, 108, 102, 96,
       91, 86, 81, 76, 71, 67, 63, 59, 55, 52, 49, 45,
       42, 39, 37, 34, 31, 29, 26, 24, 21, 19 >>

NoPeriod == [some |-> FALSE, tenths |-> 0]

SomePeriod(t) == [some |-> TRUE, tenths |-> t]

\* As get_rmd_distribution_period, with July counted as before July.
get_rmd_distribution_period_month_le_7(birth_year, birth_month, current_year) ==
    LET age_this_year == IF current_year >= birth_year THEN current_year - birth_year ELSE 0
    IN  IF age_this_year = 70 /\ birth_month <= 7
          THEN SomePeriod(DISTRIBUTION_PERIODS[age_this_year - 70 + 1])
        ELSE IF age_this_year >= 71 /\ age_this_year <= 115
          THEN SomePeriod(DISTRIBUTION_PERIODS[age_this_year - 70 + 1])
        ELSE IF age_this_year >= 115
          THEN SomePeriod(DISTRIBUTION_PERIODS[115 - 70 + 1])
        ELSE NoPeriod

\* The match of get_rmd_distribution_period, arm by arm; checked_sub(..)
\* .unwrap_or_default() makes a negative age 0.
get_rmd_distribution_period(birth_year, birth_month, current_year) ==
    LET age_this_year == IF current_year >= birth_year THEN current_year - birth_year ELSE 0
    IN  IF age_this_year = 70 /\ birth_month < 7
          THEN SomePeriod(DISTRIBUTION_PERIODS[age_this_year - 70 + 1])
        ELSE IF age_this_year >= 71 /\ age_this_year <= 115
          THEN SomePeriod(DISTRIBUTION_PERIODS[age_this_year - 70 + 1])
        ELSE IF age_this_year >= 115
          THEN SomePeriod(DISTRIBUTION_PERIODS[115 - 70 + 1])
        ELSE NoPeriod

\* <<divisor in tenths, balance>> where the balance is an exact multiple of
\* the divisor and the f64 quotient is the double just below the integer, so
\* that `as u32` yields one less.  Listed for the divisor 17.1 (age 82), the
\* only affected divisor among ages 70..87, for balances up to 10000.
F64QuotientShort ==
    { <<171, v>> : v \in
        { 513, 855, 1026, 1539, 1710, 1881, 2052, 3078, 3249, 3420, 3591,
          3762, 3933, 4104, 4275, 5985, 6156, 6327, 6498, 6669, 6840, 7011,
          7182, 7353, 7524, 7695, 7866, 8037, 8208, 8379, 8550, 8721 } }

\* ((prior_year_ending_ira_value as f64) / distribution_period) as u32
get_rmd(birth_year, birth_month, year, prior_year_ending_ira_value) ==
    LET p == get_rmd_distribution_period(birth_year, birth_month, year)
    IN  IF p.some
          THEN ((prior_year_ending_ira_value * 10) \div p.tenths)
               - (IF <<p.tenths, prior_year_ending_ira_value>> \in F64QuotientShort
                    THEN 1 ELSE 0)
          ELSE 0

\* ---------------------------------------------------------------------- tax

\* As get_tax, with the base 4453.00 for 4543.00 in the 22% bracket.
get_tax_low_base(taxable_income) ==
    IF taxable_income > 510300 THEN (37 * (taxable_income - 510300) + 15379850) \div 100
    ELSE IF taxable_income > 204100 THEN (35 * (taxable_income - 204100) + 4662850) \div 100
    ELSE IF taxable_income > 160725 THEN (32 * (taxable_income - 160725) + 3274850) \div 100
    ELSE IF taxable_income > 84200 THEN (24 * (taxable_income - 84200) + 1438250) \div 100
    ELSE IF taxable_income > 39475 THEN (22 * (taxable_income - 39475) + 445300) \div 100
    ELSE IF taxable_income > 9700 THEN (12 * (taxable_income - 9700) + 97000) \div 100
    ELSE IF taxable_income > 0 THEN (10 * taxable_income) \div 100
    ELSE 0

\* (rate * (x - threshold) + base) as u32, rates in percent and bases in cents.
get_tax(taxable_income) ==
    IF taxable_income > 510300 THEN (37 * (taxable_income - 510300) + 15379850) \div 100
    ELSE IF taxable_income > 204100 THEN (35 * (taxable_income - 204100) + 4662850) \div 100
    ELSE IF taxable_income > 160725 THEN (32 * (taxable_income - 160725) + 3274850) \div 100
    ELSE IF taxable_income > 84200 THEN (24 * (taxable_income - 84200) + 1438250) \div 100
    ELSE IF taxable_income > 39475 THEN (22 * (taxable_income - 39475) + 454300) \div 100
    ELSE IF taxable_income > 9700 THEN (12 * (taxable_income - 9700) + 97000) \div 100
    ELSE IF taxable_income > 0 THEN (10 * taxable_income) \div 100
    ELSE 0

\* ------------------------------------------------------------ ProjectArgs

\* validate(): TRUE for Ok(()).  The `< 0` tests on unsigned fields never hold.
Validate(a) ==
    ~(   a.yearly_taxable_income_excluding_ira < 0
      \/ a.inflation_effective_annual_rate > 100
      \/ a.inflation_effective_annual_rate < 0
      \/ a.roth_present_value < 0
      \/ a.roth_effective_annual_rate > 100
      \/ a.roth_effective_annual_rate < 0
      \/ a.ira_present_value < 0
      \/ a.ira_present_value < a.basis_value
      \/ a.ira_effective_annual_rate > 100
      \/ a.ira_effective_annual_rate < 0
      \/ a.birth_year > a.start_year
      \/ a.start_year > a.end_year
      \/ a.birth_month < 1
      \/ a.birth_month > 12 )

\* ------------------------------------------------------------------ State

\* State::new(year, roth, ira, basis, total_cash): previous_action and
\* total_tax take their defaults.
NewState(year, roth, ira, basis, total_cash) ==
    [year |-> year, previous_action |-> NoAction, roth |-> roth, ira |-> ira,
     basis |-> basis, total_cash |-> total_cash, total_tax |-> 0]

\* taxable_income of maximum_after_tax_cash before income is added: the
\* unsigned difference self.ira - self.basis.
TaxableIra(self) == self.ira - self.basis

maximum_after_tax_cash(self, income) ==
    LET taxable_income == TaxableIra(self) + income
        tax == get_tax(taxable_income)
    IN  self.roth + self.total_cash + self.basis + taxable_income - tax

\* (balance as f64 * (1f64 + rate - inflation)) as u32
Grow(balance, rate, inflation) == (balance * (100 + rate - inflation)) \div 100

\* basis_percent: the quotient is taken only when the grown ira is nonzero.
BasisPercent(basis, ira, rmd, rollover) ==
    IF ira # 0 THEN basis \div (ira + rmd + rollover) ELSE 0

\* take_action.  some = FALSE is the None of the two early returns.  The
\* other fields are the function's locals, in mathematical integers;
\* underflow says that one of its unsigned subtractions (or year + 1) leaves
\* the type's range.
take_action(self, action, a) ==
    LET income == a.yearly_taxable_income_excluding_ira
        rollover == action.amount
        rmd == get_rmd(a.birth_year, a.birth_month, self.year, self.ira)
        roth == Grow(self.roth + rollover, a.roth_effective_annual_rate,
                     a.inflation_effective_annual_rate)
        ira == Grow(self.ira - rmd - rollover, a.ira_effective_annual_rate,
                    a.inflation_effective_annual_rate)
        basis_percent == BasisPercent(self.basis, ira, rmd, rollover)
        nontaxable_distributions == basis_percent * (rmd + rollover)
        basis == self.basis - nontaxable_distributions
        taxable_income == (1 - basis_percent) * (rmd + rollover) + income
        tax == get_tax(taxable_income)
        cash == rmd + income - tax
        new_state == [year |-> self.year + 1, previous_action |-> action,
                      roth |-> roth, ira |-> ira, basis |-> basis,
                      total_cash |-> self.total_cash + cash,
                      total_tax |-> self.total_tax + tax]
        diff == maximum_after_tax_cash(new_state, income)
                - maximum_after_tax_cash(self, income)
    IN  IF self.ira < rollover \/ self.ira < rollover + rmd
          THEN [some |-> FALSE]
          ELSE [some |-> TRUE, state |-> new_state, cost |-> diff,
                rmd |-> rmd, rollover |-> rollover,
                basis_percent |-> basis_percent, tax |-> tax, cash |-> cash,
                underflow |->
                    \/ basis < 0
                    \/ 1 - basis_percent < 0
                    \/ cash < 0
                    \/ self.year + 1 > U16Max
                    \/ TaxableIra(new_state) < 0
                    \/ TaxableIra(self) < 0
                    \/ diff < 0]

\* The two candidate actions of successors(), in the order of its vec!.
CandidateActions == << Continue, RolloverThenContinue(RolloverAmount) >>

\* The vec! of successors(): both take_action results, computed eagerly.
Candidates(parent, a) ==
    [i \in 1..Len(CandidateActions) |-> take_action(parent, CandidateActions[i], a)]

\* filter_map(|x| x): the Some results, as (State, Cost) pairs in order.
successors(parent, a) ==
    LET c == Candidates(parent, a)
        kept == SelectSeq(c, LAMBDA r : r.some)
    IN  [i \in 1..Len(kept) |-> [state |-> kept[i].state, cost |-> kept[i].cost]]

\* Whether evaluating successors(parent, a) hits an arithmetic underflow.
SuccessorsUnderflow(parent, a) ==
    \E i \in 1..Len(CandidateActions) :
        LET r == Candidates(parent, a)[i] IN r.some /\ r.underflow

\* ----------------------------------------------------------------- search

\* Option<(VecDeque<N>, C)>: None, and Some((path, cost)).
None == [some |-> FALSE, path |-> <<>>, cost |-> 0]

SomePath(path, cost) == [some |-> TRUE, path |-> path, cost |-> cost]

\* As success, with >= for >.
success_ge(s, a) == s.year >= a.end_year

\* The success closure of project: |s| s.year > args.end_year.
success(s, a) == s.year > a.end_year

\* As RecordTerminal, without path.0.clear().
RecordTerminalKeepsPath(sp, current_cost) ==
    LET path == IF sp.some THEN sp ELSE SomePath(<<>>, current_cost)
        better == current_cost > path.cost \/ Len(path.path) = 0
    IN  [found |-> better,
         sp |-> IF better THEN SomePath(path.path, current_cost) ELSE path]

\* The success branch of shortest_path_recursive: get_or_insert_with, then
\* the comparison that adopts current_cost and clears the path.
RecordTerminal(sp, current_cost) ==
    LET path == IF sp.some THEN sp ELSE SomePath(<<>>, current_cost)
        better == current_cost > path.cost \/ Len(path.path) = 0
    IN  [found |-> better,
         sp |-> IF better THEN SomePath(<<>>, current_cost) ELSE path]

\* if found_current_shortest_path { path.0.push_front(current) }
PushFront(sp, current, found) ==
    IF found /\ sp.some THEN SomePath(<<current>> \o sp.path, sp.cost) ELSE sp

\* One activation of shortest_path_recursive: its arguments, whether its
\* for loop has obtained successors(&current), the successors the loop has
\* yet to visit, and found_current_shortest_path.
Frame(current, current_cost) ==
    [current |-> current, current_cost |-> current_cost, expanded |-> FALSE,
     succ |-> <<>>, found |-> FALSE]

Top == stack[Len(stack)]

Caller(s) == SubSeq(s, 1, Len(s) - 1)

\* The activation on top returns `found`: its caller ors the result into its
\* own flag; when the outermost call returns, shortest_path() returns.
ReturnToCaller(found) ==
    LET rest == Caller(stack)
    IN  IF rest = <<>>
          THEN /\ stack' = rest
               /\ status' = "done"
          ELSE /\ stack' = [rest EXCEPT ![Len(rest)].found = found \/ @]
               /\ status' = "running"

\* ---------------------------------------------------------------- scenarios

\* The first year of every scenario: that of tests::short_project.
StartYear == 2035

\* 0.03 and 0.08, the rates of the source's benchmarks.
RatePercents == {3, 8}

\* The ProjectArgs tried.  A basis of 7000 exceeds every IRA value and fails
\* validation; births in 1955 and 1965 put the start year at ages 80 (an RMD
\* is due) and 70 (due or not by the birth month).
Scenarios ==
    { [yearly_taxable_income_excluding_ira |-> inc,
       inflation_effective_annual_rate |-> inf,
       roth_present_value |-> 5000,
       roth_effective_annual_rate |-> 8,
       ira_present_value |-> ira,
       ira_effective_annual_rate |-> ir,
       basis_value |-> b,
       birth_year |-> by,
       birth_month |-> bm,
       start_year |-> StartYear,
       end_year |-> StartYear + h,
       starting_cash |-> 5000] :
        inc \in {0, 10000}, inf \in RatePercents, ir \in RatePercents,
        ira \in {1000, 6000}, b \in {0, 1000, 7000},
        by \in {1955, 1965}, bm \in {6, 7}, h \in 0..MaxHorizon }

\* The argument and result of one call of a pure function, for the
\* specifications that apply get_rmd_distribution_period or get_tax alone.
IdleProbe ==
    [fn |-> "none", birth_year |-> 0, birth_month |-> 0, current_year |-> 0,
     income |-> 0, applied |-> FALSE, period |-> NoPeriod, tax |-> 0]

Init ==
    /\ args \in Scenarios
    /\ status = "start"
    /\ stack = <<>>
    /\ shortest_path = None
    /\ probe = IdleProbe

\* project: validation fails, return None.
ProjectRejects ==
    /\ status = "start"
    /\ ~Validate(args)
    /\ status' = "done"
    /\ UNCHANGED <<args, stack, shortest_path, probe>>

\* project: the start state, and the outermost shortest_path_recursive call
\* with cost zero and shortest_path = None.
ProjectStarts ==
    /\ status = "start"
    /\ Validate(args)
    /\ stack' = << Frame(NewState(args.start_year, args.roth_present_value,
                                  args.ira_present_value, args.basis_value,
                                  args.starting_cash), 0) >>
    /\ shortest_path' = None
    /\ status' = "running"
    /\ UNCHANGED <<args, probe>>

\* success(&current): record the terminal, push it if it is the best, return.
VisitTerminal ==
    /\ status = "running"
    /\ success(Top.current, args)
    /\ LET r == RecordTerminal(shortest_path, Top.current_cost)
       IN  /\ shortest_path' = PushFront(r.sp, Top.current, r.found)
           /\ ReturnToCaller(r.found)
    /\ UNCHANGED <<args, probe>>

\* The for loop calls successors(&current), which evaluates both actions.
Expand ==
    /\ status = "running"
    /\ ~success(Top.current, args)
    /\ ~Top.expanded
    /\ ~SuccessorsUnderflow(Top.current, args)
    /\ stack' = [stack EXCEPT ![Len(stack)].expanded = TRUE,
                              ![Len(stack)].succ = successors(Top.current, args)]
    /\ UNCHANGED <<args, status, shortest_path, probe>>

\* successors(&current) underflows in a build with overflow checks: panic.
PanicOnUnderflow ==
    /\ status = "running"
    /\ ~success(Top.current, args)
    /\ ~Top.expanded
    /\ SuccessorsUnderflow(Top.current, args)
    /\ status' = "panicked"
    /\ UNCHANGED <<args, stack, shortest_path, probe>>

\* The same underflow in a build without overflow checks: the value wraps
\* modulo 2^32 and the search goes on with it; the model does not follow it.
WrapOnUnderflow ==
    /\ status = "running"
    /\ ~success(Top.current, args)
    /\ ~Top.expanded
    /\ SuccessorsUnderflow(Top.current, args)
    /\ status' = "wrapped"
    /\ UNCHANGED <<args, stack, shortest_path, probe>>

\* The loop's next iteration: the recursive call on (next, current_cost + cost).
Descend ==
    /\ status = "running"
    /\ Top.expanded
    /\ Top.succ # <<>>
    /\ LET next == Head(Top.succ)
       IN  stack' = [stack EXCEPT ![Len(stack)].succ = Tail(Top.succ)]
                    \o << Frame(next.state, Top.current_cost + next.cost) >>
    /\ UNCHANGED <<args, status, shortest_path, probe>>

\* The loop is over: push current if a best path was found below, return.
Return ==
    /\ status = "running"
    /\ ~success(Top.current, args)
    /\ Top.expanded
    /\ Top.succ = <<>>
    /\ shortest_path' = PushFront(shortest_path, Top.current, Top.found)
    /\ ReturnToCaller(Top.found)
    /\ UNCHANGED <<args, probe>>

Next ==
    \/ ProjectRejects
    \/ ProjectStarts
    \/ VisitTerminal
    \/ Expand
    \/ PanicOnUnderflow
    \/ WrapOnUnderflow
    \/ Descend
    \/ Return

Spec == Init /\ [][Next]_vars

\* ------------------------------------------------- the pure functions alone

\* The year the source's tests ask about.
ProbeYear == 2019

\* tests::short_project's arguments.
BenchmarkArgs ==
    [yearly_taxable_income_excluding_ira |-> 10000,
     inflation_effective_annual_rate |-> 3,
     roth_present_value |-> 5000,
     roth_effective_annual_rate |-> 8,
     ira_present_value |-> 6000,
     ira_effective_annual_rate |-> 8,
     basis_value |-> 0,
     birth_year |-> 1955,
     birth_month |-> 6,
     start_year |-> 2035,
     end_year |-> 2040,
     starting_cash |-> 5000]

\* Ages -1 (born next year) to MaxAge, every birth month.
RmdProbes ==
    { [IdleProbe EXCEPT !.fn = "rmd", !.birth_year = ProbeYear - age,
                        !.birth_month = bm, !.current_year = ProbeYear] :
        age \in -1..MaxAge, bm \in 1..12 }

InitRmd ==
    /\ args = BenchmarkArgs
    /\ status = "probe"
    /\ stack = <<>>
    /\ shortest_path = None
    /\ probe \in RmdProbes

ApplyRmd ==
    /\ probe.fn = "rmd"
    /\ ~probe.applied
    /\ probe' = [probe EXCEPT
                   !.applied = TRUE,
                   !.period = get_rmd_distribution_period(
                                  probe.birth_year, probe.birth_month, probe.current_year)]
    /\ UNCHANGED <<args, status, stack, shortest_path>>

NextRmd == ApplyRmd

SpecRmd == InitRmd /\ [][NextRmd]_vars

Thresholds == {0, 9700, 39475, 84200, 160725, 204100, 510300}

\* Incomes around every bracket threshold, every multiple of 10000 up to
\* 600000, and the income of tests::tax_gt_510_300.
TaxIncomes ==
    { x \in UNION { (t - TaxWindow)..(t + TaxWindow) : t \in Thresholds } : x >= 0 }
    \cup { 10000 * k : k \in 0..60 }
    \cup { 510400 }

InitTax ==
    /\ args = BenchmarkArgs
    /\ status = "probe"
    /\ stack = <<>>
    /\ shortest_path = None
    /\ probe \in { [IdleProbe EXCEPT !.fn = "tax", !.income = x] : x \in TaxIncomes }

ApplyTax ==
    /\ probe.fn = "tax"
    /\ ~probe.applied
    /\ probe' = [probe EXCEPT !.applied = TRUE, !.tax = get_tax(probe.income)]
    /\ UNCHANGED <<args, status, stack, shortest_path>>

NextTax == ApplyTax

SpecTax == InitTax /\ [][NextTax]_vars

\* ------------------------------------------------------------------ claims

\* project has returned Some((path, cost)).
Returned == status = "done" /\ shortest_path.some

StartState ==
    NewState(args.start_year, args.roth_present_value, args.ira_present_value,
             args.basis_value, args.starting_cash)

\* A reachable state is about to be handed to successors().
AtExpansion ==
    /\ status = "running"
    /\ ~success(Top.current, args)
    /\ ~Top.expanded

\* The accumulated costs of all terminating paths below node.
RECURSIVE TerminalCosts(_, _)
TerminalCosts(node, cost) ==
    IF success(node, args)
      THEN {cost}
      ELSE LET next == successors(node, args)
           IN  UNION { TerminalCosts(next[i].state, cost + next[i].cost) :
                       i \in 1..Len(next) }

\* C1: the cost shortest_path returns is the lowest among all paths from the
\* start state to a terminal state: no terminating path costs strictly less.
C1_LowestCost ==
    Returned => \A c \in TerminalCosts(StartState, 0) : c >= shortest_path.cost

\* The cost of the edge from s to t, the state t.previous_action makes of s.
EdgeCost(s, t) == take_action(s, t.previous_action, args).cost

RECURSIVE PathCost(_)
PathCost(path) ==
    IF Len(path) < 2 THEN 0
    ELSE EdgeCost(path[1], path[2]) + PathCost(Tail(path))

\* C2: a returned path is a chain of the graph and the cost is its own: it
\* starts at the initial state, only its last element is terminal, each
\* element is a successor of the one before and one year later, and the
\* cost is the sum of the edge costs along it.
C2_PathIsChain ==
    Returned =>
        LET path == shortest_path.path
        IN  /\ Len(path) >= 1
            /\ path[1] = StartState
            /\ \A i \in 1..Len(path) : success(path[i], args) <=> i = Len(path)
            /\ \A i \in 1..(Len(path) - 1) :
                   /\ \E j \in 1..Len(successors(path[i], args)) :
                          successors(path[i], args)[j].state = path[i + 1]
                   /\ path[i + 1].year = path[i].year + 1
            /\ shortest_path.cost = PathCost(path)

\* A search returned a path that takes a rollover, so that the path of the
\* first terminal found (every year Continue) was cleared and rebuilt.
C2_Witness ==
    /\ Returned
    /\ Len(shortest_path.path) >= 3
    /\ \E i \in 1..Len(shortest_path.path) :
           shortest_path.path[i].previous_action.kind = "RolloverThenContinue"

\* C3 as stated: a returned path has end_year - start_year + 1 states, of the
\* years start_year..end_year; the benchmark's has 6 and a cost >= 0.
C3_OneStatePerYearThroughEndYear ==
    Returned =>
        LET path == shortest_path.path
        IN  /\ Len(path) = args.end_year - args.start_year + 1
            /\ \A i \in 1..Len(path) : path[i].year = args.start_year + i - 1
            /\ args = BenchmarkArgs => Len(path) = 6 /\ shortest_path.cost >= 0

\* C3 amended: a returned path has end_year - start_year + 2 states, one per
\* year from start_year to end_year + 1, the terminal state's year; the
\* benchmark's has 7 (2035..2041) and a cost >= 0.
C3_OneStatePerYearThroughTerminal ==
    Returned =>
        LET path == shortest_path.path
        IN  /\ Len(path) = args.end_year - args.start_year + 2
            /\ \A i \in 1..Len(path) : path[i].year = args.start_year + i - 1
            /\ args = BenchmarkArgs => Len(path) = 7 /\ shortest_path.cost >= 0

\* The benchmark scenario has returned, its path ending in the year 2041.
C3_Witness ==
    /\ Returned
    /\ args = BenchmarkArgs
    /\ Len(shortest_path.path) = 7
    /\ shortest_path.path[7].year = 2041
    /\ shortest_path.cost = 57353

\* C4: for a scenario that passes validation project does not panic and,
\* when it returns, returns Some.
C4_TotalForValidInput ==
    Validate(args) => /\ status # "panicked"
                      /\ status = "done" => shortest_path.some

\* C5: the distribution period is None below age 70, at age 70 the first
\* divisor for a birth month before July and None from July on, for ages
\* 71..115 the divisor at index age - 70 whatever the month, and beyond 115
\* the divisor of age 115.
C5_DistributionPeriod ==
    (probe.fn = "rmd" /\ probe.applied) =>
        LET age == IF probe.current_year >= probe.birth_year
                     THEN probe.current_year - probe.birth_year ELSE 0
        IN  /\ age < 70 => probe.period = NoPeriod
            /\ (age = 70 /\ probe.birth_month < 7) => probe.period = SomePeriod(274)
            /\ (age = 70 /\ probe.birth_month >= 7) => probe.period = NoPeriod
            /\ (age >= 71 /\ age <= 115) =>
                   probe.period = SomePeriod(DISTRIBUTION_PERIODS[age - 70 + 1])
            /\ age > 115 => probe.period = SomePeriod(19)

\* The period was asked for someone who turns 70 in July: None.
C5_Witness ==
    /\ probe.fn = "rmd"
    /\ probe.applied
    /\ probe.current_year - probe.birth_year = 70
    /\ probe.birth_month = 7
    /\ probe.period = NoPeriod

\* C6: get_tax never decreases as income grows, in particular from a bracket
\* threshold to the next dollar; get_tax(0) = 0 and get_tax(510400) = 153835.
C6_TaxMonotone ==
    (probe.fn = "tax" /\ probe.applied) =>
        /\ \A y \in TaxIncomes : y >= probe.income => get_tax(y) >= probe.tax
        /\ get_tax(probe.income + 1) >= probe.tax
        /\ probe.income = 0 => probe.tax = 0
        /\ probe.income = 510400 => probe.tax = 153835

\* The tax at the threshold 39475 was computed: the base of the next bracket.
C6_Witness ==
    /\ probe.fn = "tax"
    /\ probe.applied
    /\ probe.income = 39475
    /\ probe.tax = 4543

\* The quotient the claim C7 describes: taken whenever the denominator is
\* nonzero.
ClaimedBasisPercent(basis, ira, rmd, rollover) ==
    IF ira + rmd + rollover # 0 THEN basis \div (ira + rmd + rollover) ELSE 0

\* C7: for every accepted action, basis_percent is basis divided by
\* (rmd + rollover + remaining ira) whenever that sum is nonzero, and 0 only
\* when the sum is zero.
C7_BasisPercentQuotient ==
    AtExpansion =>
        \A i \in 1..Len(CandidateActions) :
            LET r == Candidates(Top.current, args)[i]
            IN  r.some =>
                    r.basis_percent
                      = ClaimedBasisPercent(Top.current.basis, r.state.ira, r.rmd, r.rollover)

\* C8: for every reachable state and accepted action whose earlier
\* arithmetic is in range, the liquidation value of the next state is at
\* least that of the current one, so the edge cost does not underflow.
C8_EdgeCostNonNegative ==
    AtExpansion =>
        \A i \in 1..Len(CandidateActions) :
            LET r == Candidates(Top.current, args)[i]
            IN  (r.some /\ r.state.basis >= 0 /\ r.basis_percent <= 1 /\ r.cash >= 0
                        /\ TaxableIra(r.state) >= 0) =>
                    maximum_after_tax_cash(r.state, args.yearly_taxable_income_excluding_ira)
                      >= maximum_after_tax_cash(Top.current,
                                                args.yearly_taxable_income_excluding_ira)

\* C9: every state a transition builds from a reachable state keeps
\* basis <= ira, and basis_percent never exceeds 1.
C9_BasisWithinIra ==
    AtExpansion =>
        /\ Top.current.basis <= Top.current.ira
        /\ \A i \in 1..Len(CandidateActions) :
               LET r == Candidates(Top.current, args)[i]
               IN  (r.some /\ r.cash >= 0) =>
                       r.basis_percent <= 1 /\ r.state.basis <= r.state.ira

\* C10: for every reachable state and accepted action the cash received,
\* rmd + income - tax, is not negative.
C10_CashNonNegative ==
    AtExpansion =>
        \A i \in 1..Len(CandidateActions) :
            LET r == Candidates(Top.current, args)[i]
            IN  (r.some /\ r.state.basis >= 0 /\ r.basis_percent <= 1) => r.cash >= 0

====
